---- MODULE Spec2Model ----
(***************************************************************************)
(* WinSparkle appcast handling: the version comparator (CompareVersions),  *)
(* the expat-driven appcast parser (OnStartElement, OnEndElement, OnText,  *)
(* Appcast::Load) with its file-static last_version, and the update check  *)
(* that drives it (UpdateChecker::Run).                                    *)
(*                                                                         *)
(* A std::string is a sequence of bytes, written here as a sequence of     *)
(* character codes: "1.5b3" is <<49, 46, 53, 98, 51>>.                     *)
(***************************************************************************)
EXTENDS Integers, Sequences, FiniteSets, TLC

VARIABLES
    verA, verB, verC,   \* arguments handed to CompareVersions
    result,             \* what the CompareVersions calls returned
    last_version,       \* static std::string last_version (appcast.cpp)
    appcast,            \* the Appcast that Load fills in
    ctxt,               \* ContextData: the five nesting counters
    stack,              \* expat: names of the currently open elements
    rootClosed,         \* expat: the document element has been closed
    event,              \* expat: the callback delivered last
    xml,                \* what this parse has consumed so far of Load's xml argument
    earlier,            \* versions of the enclosures met inside items by earlier successful parses
    before,             \* last_version as it was when the current Run started
    calls,              \* what the current Run has called so far, "throw" when it left by an exception
    pc,                 \* where UpdateChecker::Run stands
    notified,           \* UI notifications issued by the current Run, in order
    check,              \* what Run read from Settings and its checker class
    lastCheckTime,      \* number of times "LastCheckTime" was written
    runs,               \* number of Run() calls started in this process
    parses,             \* the parses of two checker threads running at the same time
    stale               \* the bytes of last_version's buffer behind the string, as the threads leave them

cmpVars == <<verA, verB, verC, result>>
runVars == <<last_version, appcast, ctxt, stack, rootClosed, event, xml,
             earlier, before, calls, pc, notified, check, lastCheckTime, runs>>
vars == <<verA, verB, verC, result, last_version, appcast, ctxt, stack,
          rootClosed, event, xml, earlier, before, calls, pc, notified, check,
          lastCheckTime, runs, parses, stale>>
\* what only the parses of concurrent threads change or read
threadVars == <<parses, stale>>
\* what a parse running next to another one shares with nobody
checkerVars == <<appcast, ctxt, stack, rootClosed, event, xml, earlier, before,
                 calls, pc, notified, check, lastCheckTime, runs>>

----------------------------------------------------------------------------
(* Bounds of the model *)

\* longest version string handed to CompareVersions on its own
MaxLen == 3
\* longest well-formed version string of a triple handed to CompareVersions
MaxTransLen == 4
\* deepest element nesting of a document
MaxDepth == 3
\* most elements of a document
MaxElements == 4
\* most elements of a document of any elements whose enclosures carry a version
MaxStrayElements == 3
\* most elements of a feed of channels, items and enclosures
MaxFeedElements == 5
\* most elements of a document of character data
MaxTextElements == 5
\* most character-data events of a document
MaxTexts == 2
\* most update checks in one process
MaxRuns == 2
\* most enclosures of the feed of a checker thread
MaxEnclosures == 2

----------------------------------------------------------------------------
(* Version comparison *)

ClassifyChar(c) ==
    IF c = 46 THEN "Type_Period"
    ELSE IF c >= 48 /\ c <= 57 THEN "Type_Number"
    ELSE "Type_String"

RECURSIVE SplitLoop_MergePeriods(_, _, _, _, _)
\* SplitLoop without "|| prevType == Type_Period": consecutive periods are
\* grouped like any other run of characters of one class
SplitLoop_MergePeriods(version, i, list, s, prevType) ==
    IF i > Len(version) THEN Append(list, s)
    ELSE LET c == version[i]
             newType == ClassifyChar(c)
         IN  IF prevType # newType
             THEN SplitLoop_MergePeriods(version, i + 1, Append(list, s), <<c>>,
                                         newType)
             ELSE SplitLoop_MergePeriods(version, i + 1, list, Append(s, c),
                                         newType)

RECURSIVE SplitLoop(_, _, _, _, _)
\* the for loop of SplitVersionString, from index i (1-based), then the
\* final push_back
SplitLoop(version, i, list, s, prevType) ==
    IF i > Len(version) THEN Append(list, s)
    ELSE LET c == version[i]
             newType == ClassifyChar(c)
         IN  IF prevType # newType \/ prevType = "Type_Period"
             THEN SplitLoop(version, i + 1, Append(list, s), <<c>>, newType)
             ELSE SplitLoop(version, i + 1, list, Append(s, c), newType)

SplitVersionString(version) ==
    IF version = <<>> THEN <<>>
    ELSE SplitLoop(version, 2, <<>>, <<version[1]>>, ClassifyChar(version[1]))

RECURSIVE StringCompareFrom(_, _, _)
\* std::string::compare: bytewise, then by length; only the sign of the
\* result is specified, so -1, 0, 1 stand for negative, zero, positive
StringCompareFrom(a, b, i) ==
    IF i > Len(a) /\ i > Len(b) THEN 0
    ELSE IF i > Len(a) THEN -1
    ELSE IF i > Len(b) THEN 1
    ELSE IF a[i] < b[i] THEN -1
    ELSE IF a[i] > b[i] THEN 1
    ELSE StringCompareFrom(a, b, i + 1)

StringCompare(a, b) == StringCompareFrom(a, b, 1)

\* int is 32 bits wide: the int whose bit pattern has the 16-bit halves hi, lo
Int32(hi, lo) == (((hi + 32768) % 65536) - 32768) * 65536 + lo

RECURSIVE AtoiLoop(_, _, _)
\* The digit loop of atoi (strtol in base 10, narrowed to int): acc is the int
\* made of the low 32 bits of the value read so far, so a component of ten or
\* more digits wraps modulo 2^32 ("2147483648" reads as -2147483648,
\* "4294967296" as 0).  Where the product could leave the 32 bits it is taken
\* on 16-bit halves.
AtoiLoop(s, i, acc) ==
    IF i > Len(s) \/ ClassifyChar(s[i]) # "Type_Number" THEN acc
    ELSE IF acc >= 0 /\ acc < 214748364
    THEN AtoiLoop(s, i + 1, acc * 10 + (s[i] - 48))
    ELSE LET lo == (acc % 65536) * 10 + (s[i] - 48)
             hi == (acc \div 65536) * 10 + (lo \div 65536)
         IN  AtoiLoop(s, i + 1, Int32(hi, lo % 65536))

RECURSIVE DigitsEnd(_, _)
\* the position after the last of the digits that start at position i
DigitsEnd(s, i) ==
    IF i > Len(s) \/ ClassifyChar(s[i]) # "Type_Number" THEN i
    ELSE DigitsEnd(s, i + 1)

RECURSIVE SkipZeros(_, _)
SkipZeros(s, i) ==
    IF i > Len(s) \/ s[i] # 48 THEN i ELSE SkipZeros(s, i + 1)

\* LONG_MAX, 2^63 - 1, in decimal digits
LongMaxDigits ==
    <<57, 50, 50, 51, 51, 55, 50, 48, 51, 54, 56, 53, 52, 55, 55, 53, 56, 48, 55>>

\* strtol clamps a value above LONG_MAX to LONG_MAX
ClampsToLongMax(s) ==
    LET e == DigitsEnd(s, 1)
        z == SkipZeros(s, 1)
        digits == IF z < e THEN SubSeq(s, z, e - 1) ELSE <<>>
    IN  \/ Len(digits) > Len(LongMaxDigits)
        \/ Len(digits) = Len(LongMaxDigits) /\ StringCompare(digits, LongMaxDigits) > 0

\* atoi on a component.  A value outside the range of int is undefined by the
\* C standard; the C library of the build returns (int) strtol(s, NULL, 10):
\* the low 32 bits of the value, and of LONG_MAX (-1) once strtol clamps.
Atoi(s) ==
    IF Len(s) >= Len(LongMaxDigits) /\ ClampsToLongMax(s) THEN -1
    ELSE AtoiLoop(s, 1, 0)

Min(x, y) == IF x < y THEN x ELSE y

\* CompareTail with shorterResult and longerResult not flipped when B is the
\* longer version
CompareTail_NoFlip(partsA, partsB, n) ==
    IF Len(partsA) = Len(partsB) THEN 0
    ELSE LET longer == IF Len(partsA) > Len(partsB) THEN partsA ELSE partsB
         IN  IF ClassifyChar(longer[n + 1][1]) = "Type_String" THEN -1 ELSE 1

\* CompareTail with the two results exchanged: a trailing tag sorts above
CompareTail_Swapped(partsA, partsB, n) ==
    IF Len(partsA) = Len(partsB) THEN 0
    ELSE LET longer == IF Len(partsA) > Len(partsB) THEN partsA ELSE partsB
             shorterResult == IF Len(partsA) > Len(partsB) THEN -1 ELSE 1
             longerResult == IF Len(partsA) > Len(partsB) THEN 1 ELSE -1
         IN  IF ClassifyChar(longer[n + 1][1]) = "Type_String" THEN longerResult
             ELSE shorterResult

\* the part of CompareVersions after the loop: the versions agree on their
\* common parts
CompareTail(partsA, partsB, n) ==
    IF Len(partsA) = Len(partsB) THEN 0
    ELSE LET longer == IF Len(partsA) > Len(partsB) THEN partsA ELSE partsB
             missingPartType == ClassifyChar(longer[n + 1][1])
             shorterResult == IF Len(partsA) > Len(partsB) THEN -1 ELSE 1
             longerResult == IF Len(partsA) > Len(partsB) THEN 1 ELSE -1
         IN  IF missingPartType = "Type_String" THEN shorterResult
             ELSE longerResult

\* CompareParts with "return 1" in both branches that meet a string
\* component
CompareParts_SameSign(a, b) ==
    LET typeA == ClassifyChar(a[1])
        typeB == ClassifyChar(b[1])
    IN  IF typeA = typeB
        THEN IF typeA = "Type_String"
             THEN IF StringCompare(a, b) # 0 THEN <<StringCompare(a, b)>>
                  ELSE <<>>
             ELSE IF typeA = "Type_Number"
             THEN IF Atoi(a) > Atoi(b) THEN <<1>>
                  ELSE IF Atoi(a) < Atoi(b) THEN <<-1>>
                  ELSE <<>>
             ELSE <<>>
        ELSE IF typeA # "Type_String" /\ typeB = "Type_String" THEN <<1>>
        ELSE IF typeA = "Type_String" /\ typeB # "Type_String" THEN <<1>>
        ELSE IF typeA = "Type_Number" THEN <<1>> ELSE <<-1>>

\* one pass of the loop body of CompareVersions on the components a and b:
\* <<r>> when it returns r, <<>> when the loop goes on to the next pair
CompareParts(a, b) ==
    LET typeA == ClassifyChar(a[1])
        typeB == ClassifyChar(b[1])
    IN  IF typeA = typeB
        THEN IF typeA = "Type_String"
             THEN IF StringCompare(a, b) # 0 THEN <<StringCompare(a, b)>>
                  ELSE <<>>
             ELSE IF typeA = "Type_Number"
             THEN IF Atoi(a) > Atoi(b) THEN <<1>>
                  ELSE IF Atoi(a) < Atoi(b) THEN <<-1>>
                  ELSE <<>>
             ELSE <<>>
        ELSE IF typeA # "Type_String" /\ typeB = "Type_String" THEN <<1>>
        ELSE IF typeA = "Type_String" /\ typeB # "Type_String" THEN <<-1>>
        ELSE IF typeA = "Type_Number" THEN <<1>> ELSE <<-1>>

RECURSIVE CompareLoop(_, _, _, _)
\* the loop of CompareVersions from component i (1-based) on, then the code
\* after the loop
CompareLoop(partsA, partsB, i, n) ==
    IF i > n THEN CompareTail(partsA, partsB, n)
    ELSE LET r == CompareParts(partsA[i], partsB[i])
         IN  IF r # <<>> THEN r[1]
             ELSE CompareLoop(partsA, partsB, i + 1, n)

CompareVersions(a, b) ==
    LET partsA == SplitVersionString(a)
        partsB == SplitVersionString(b)
    IN  CompareLoop(partsA, partsB, 1, Min(Len(partsA), Len(partsB)))

----------------------------------------------------------------------------
(* CompareVersions as a pure function: inputs and the calls *)

\* '.', '0', '1', 'a', 'b'
Alphabet == {46, 48, 49, 97, 98}

\* every string over Alphabet of at most n characters
Strings(n) == UNION {[1..k -> Alphabet] : k \in 0..n}

V_1_0     == <<49, 46, 48>>                  \* "1.0"
V_1_0_0   == <<49, 46, 48, 46, 48>>          \* "1.0.0"
V_1_5     == <<49, 46, 53>>                  \* "1.5"
V_1_5_1   == <<49, 46, 53, 46, 49>>          \* "1.5.1"
V_1_5b3   == <<49, 46, 53, 98, 51>>          \* "1.5b3"
V_1_2_0   == <<49, 46, 50, 46, 48>>          \* "1.2.0"
V_1_2rc1  == <<49, 46, 50, 114, 99, 49>>     \* "1.2rc1"
V_2_0     == <<50, 46, 48>>                  \* "2.0"
V_INT_MAX == <<50, 49, 52, 55, 52, 56, 51, 54, 52, 55>>   \* "2147483647"
V_INT_MAX_1 == <<50, 49, 52, 55, 52, 56, 51, 54, 52, 56>> \* "2147483648"

\* the version strings of the comments in CompareVersions and of the
\* documented examples
ExampleVersions ==
    {V_1_0, V_1_0_0, V_1_5, V_1_5_1, V_1_5b3, V_1_2_0, V_1_2rc1, V_2_0}

\* build numbers at the upper end of int and one above it
LongVersions == {V_INT_MAX, V_INT_MAX_1}

CmpVersions == Strings(MaxLen) \cup ExampleVersions \cup LongVersions

\* digit groups separated by single periods, optionally followed by an
\* alphabetic tag and digits: N (. N)* [S [N]] as components
WellFormed(v) ==
    LET parts == SplitVersionString(v)
        type(i) == ClassifyChar(parts[i][1])
    IN  /\ Len(parts) >= 1
        /\ \E m \in 1..Len(parts) :
            /\ m % 2 = 1
            /\ \A i \in 1..m :
                type(i) = (IF i % 2 = 1 THEN "Type_Number" ELSE "Type_Period")
            /\ \/ Len(parts) = m
               \/ Len(parts) = m + 1 /\ type(m + 1) = "Type_String"
               \/ /\ Len(parts) = m + 2
                  /\ type(m + 1) = "Type_String"
                  /\ type(m + 2) = "Type_Number"

\* '.', '1', 'b'
TransAlphabet == {46, 49, 98}

WellFormedVersions ==
    {v \in UNION {[1..k -> TransAlphabet] : k \in 0..MaxTransLen} \cup ExampleVersions
            \cup LongVersions :
        WellFormed(v)}

NoResult == [called |-> FALSE, ab |-> 0, ba |-> 0, aa |-> 0, bc |-> 0, ac |-> 0]

\* a caller compares the versions it holds, as OnStartElement and Run do
CallCompareVersions ==
    /\ ~result.called
    /\ result' = [called |-> TRUE,
                  ab |-> CompareVersions(verA, verB),
                  ba |-> CompareVersions(verB, verA),
                  aa |-> CompareVersions(verA, verA),
                  bc |-> CompareVersions(verB, verC),
                  ac |-> CompareVersions(verA, verC)]
    /\ UNCHANGED <<verA, verB, verC>>

----------------------------------------------------------------------------
(* XML parsing: the three expat callbacks *)

NS_SPARKLE        == "http://www.andymatuschak.org/xml-namespaces/sparkle"
NODE_CHANNEL      == "channel"
NODE_ITEM         == "item"
NODE_RELNOTES     == NS_SPARKLE \o "#" \o "releaseNotesLink"
NODE_TITLE        == "title"
NODE_DESCRIPTION  == "description"
NODE_ENCLOSURE    == "enclosure"
ATTR_URL          == "url"
ATTR_VERSION      == NS_SPARKLE \o "#" \o "version"
ATTR_SHORTVERSION == NS_SPARKLE \o "#" \o "shortVersionString"

\* struct Appcast as its constructor leaves it: six empty strings
EmptyAppcast ==
    [Version |-> <<>>, ShortVersionString |-> <<>>, DownloadURL |-> <<>>,
     ReleaseNotesURL |-> <<>>, Title |-> <<>>, Description |-> <<>>]

\* ContextData as its constructor leaves it
NewContextData ==
    [in_channel |-> 0, in_item |-> 0, in_relnotes |-> 0, in_title |-> 0,
     in_description |-> 0]

RECURSIVE GoLoop_AcceptEqual(_, _, _, _)
\* GoLoop with "<= 0" for "< 0": an enclosure no newer than the last one
\* passes
GoLoop_AcceptEqual(last, attrs, i, go) ==
    IF i > Len(attrs) THEN go
    ELSE IF attrs[i][1] = ATTR_VERSION /\ CompareVersions(last, attrs[i][2]) <= 0
         THEN GoLoop_AcceptEqual(last, attrs, i + 1, 1)
         ELSE GoLoop_AcceptEqual(last, attrs, i + 1, go)

RECURSIVE GoLoop_Older(_, _, _, _)
\* GoLoop with "> 0" for "< 0": only an older enclosure passes
GoLoop_Older(last, attrs, i, go) ==
    IF i > Len(attrs) THEN go
    ELSE IF attrs[i][1] = ATTR_VERSION /\ CompareVersions(last, attrs[i][2]) > 0
         THEN GoLoop_Older(last, attrs, i + 1, 1)
         ELSE GoLoop_Older(last, attrs, i + 1, go)

RECURSIVE GoLoop(_, _, _, _)
\* the first loop over attrs of the enclosure branch; attrs is the list of
\* <<name, value>> pairs expat hands over
GoLoop(last, attrs, i, go) ==
    IF i > Len(attrs) THEN go
    ELSE IF attrs[i][1] = ATTR_VERSION /\ CompareVersions(last, attrs[i][2]) < 0
         THEN GoLoop(last, attrs, i + 1, 1)
         ELSE GoLoop(last, attrs, i + 1, go)

\* EnclosureGo without the test of last_version.length(): the comparison
\* also runs against an empty last_version
EnclosureGo_AlwaysCompare(last, attrs) == GoLoop(last, attrs, 1, 0)

\* the value of go when the enclosure branch reaches "if (go == 1)"
EnclosureGo(last, attrs) ==
    IF Len(last) > 0 THEN GoLoop(last, attrs, 1, 0) ELSE 1

RECURSIVE CopyLoop(_, _, _)
\* the second loop over attrs; st is [appcast, last_version]
CopyLoop(st, attrs, i) ==
    IF i > Len(attrs) THEN st
    ELSE LET name == attrs[i][1]
             value == attrs[i][2]
         IN  IF name = ATTR_URL
             THEN CopyLoop([st EXCEPT !.appcast.DownloadURL = value], attrs, i + 1)
             ELSE IF name = ATTR_VERSION
             THEN CopyLoop([st EXCEPT !.appcast.Version = value,
                                      !.last_version = value], attrs, i + 1)
             ELSE IF name = ATTR_SHORTVERSION
             THEN CopyLoop([st EXCEPT !.appcast.ShortVersionString = value],
                           attrs, i + 1)
             ELSE CopyLoop(st, attrs, i + 1)

\* OnEnclosure clearing the three fields of the descriptor before it copies
\* the attributes of an accepted enclosure
OnEnclosure_Clear(st, attrs) ==
    IF EnclosureGo(st.last_version, attrs) = 1
    THEN CopyLoop([st EXCEPT !.appcast.DownloadURL = <<>>,
                             !.appcast.Version = <<>>,
                             !.appcast.ShortVersionString = <<>>], attrs, 1)
    ELSE st

\* the enclosure branch of OnStartElement
OnEnclosure(st, attrs) ==
    IF EnclosureGo(st.last_version, attrs) = 1
    THEN CopyLoop(st, attrs, 1)
    ELSE st

\* OnStartElement without the test of ctxt.in_item: the elements of an item
\* are handled wherever they stand
OnStartElement_NoItemGate(st, name, attrs) ==
    IF name = NODE_CHANNEL
    THEN [st EXCEPT !.ctxt.in_channel = @ + 1]
    ELSE IF st.ctxt.in_channel # 0 /\ name = NODE_ITEM
    THEN [st EXCEPT !.ctxt.in_item = @ + 1]
    ELSE IF name = NODE_RELNOTES
    THEN [st EXCEPT !.ctxt.in_relnotes = @ + 1]
    ELSE IF name = NODE_TITLE
    THEN [st EXCEPT !.ctxt.in_title = @ + 1]
    ELSE IF name = NODE_DESCRIPTION
    THEN [st EXCEPT !.ctxt.in_description = @ + 1]
    ELSE IF name = NODE_ENCLOSURE
    THEN LET r == OnEnclosure([appcast |-> st.appcast,
                               last_version |-> st.last_version], attrs)
         IN  [st EXCEPT !.appcast = r.appcast,
                        !.last_version = r.last_version]
    ELSE st

\* OnStartElement on st = [ctxt, appcast, last_version]
OnStartElement(st, name, attrs) ==
    IF name = NODE_CHANNEL
    THEN [st EXCEPT !.ctxt.in_channel = @ + 1]
    ELSE IF st.ctxt.in_channel # 0 /\ name = NODE_ITEM
    THEN [st EXCEPT !.ctxt.in_item = @ + 1]
    ELSE IF st.ctxt.in_item # 0
    THEN IF name = NODE_RELNOTES
         THEN [st EXCEPT !.ctxt.in_relnotes = @ + 1]
         ELSE IF name = NODE_TITLE
         THEN [st EXCEPT !.ctxt.in_title = @ + 1]
         ELSE IF name = NODE_DESCRIPTION
         THEN [st EXCEPT !.ctxt.in_description = @ + 1]
         ELSE IF name = NODE_ENCLOSURE
         THEN LET r == OnEnclosure([appcast |-> st.appcast,
                                    last_version |-> st.last_version], attrs)
              IN  [st EXCEPT !.appcast = r.appcast,
                             !.last_version = r.last_version]
         ELSE st
    ELSE st

\* OnEndElement on the counters c
OnEndElement(c, name) ==
    IF c.in_item # 0 /\ name = NODE_RELNOTES
    THEN [c EXCEPT !.in_relnotes = @ - 1]
    ELSE IF c.in_item # 0 /\ name = NODE_TITLE
    THEN [c EXCEPT !.in_title = @ - 1]
    ELSE IF c.in_item # 0 /\ name = NODE_DESCRIPTION
    THEN [c EXCEPT !.in_description = @ - 1]
    ELSE IF c.in_channel # 0 /\ name = NODE_ITEM
    THEN c
    ELSE IF name = NODE_CHANNEL
    THEN [c EXCEPT !.in_channel = @ - 1]
    ELSE c

\* OnText on the appcast a, with the counters c and the bytes s
OnText(a, c, s) ==
    IF c.in_relnotes # 0
    THEN [a EXCEPT !.ReleaseNotesURL = @ \o s]
    ELSE IF c.in_title # 0
    THEN [a EXCEPT !.Title = @ \o s]
    ELSE IF c.in_description # 0
    THEN [a EXCEPT !.Description = @ \o s]
    ELSE a

----------------------------------------------------------------------------
(* The documents expat reads, and Appcast::Load inside UpdateChecker::Run *)

\* an element of no interest to the parser, such as the <rss> root
NODE_RSS == "rss"

ElementNames ==
    {NODE_RSS, NODE_CHANNEL, NODE_ITEM, NODE_RELNOTES, NODE_TITLE,
     NODE_DESCRIPTION, NODE_ENCLOSURE}

\* the elements of a feed that carries nothing but enclosures
FeedNames == {NODE_CHANNEL, NODE_ITEM, NODE_ENCLOSURE}

Url1 == <<117, 49>>     \* "u1"
Url2 == <<117, 50>>     \* "u2"
Short1 == <<115>>       \* "s"
TextChunks == {<<120>>, <<121>>}    \* "x", "y"

\* values of sparkle:version in the feeds; "" is a legal attribute value
EnclosureVersions == {<<>>, V_1_5, V_2_0}

\* the attributes of an <enclosure>: each of url, sparkle:version and
\* sparkle:shortVersionString present at most once (expat rejects a
\* duplicate attribute), in this order
EnclosureAttrs ==
    {u \o v \o sv :
        u \in {<<>>} \cup {<< <<ATTR_URL, x>> >> : x \in {Url1, Url2}},
        v \in {<<>>} \cup {<< <<ATTR_VERSION, x>> >> : x \in EnclosureVersions},
        sv \in {<<>>, << <<ATTR_SHORTVERSION, Short1>> >>}}

\* the attributes of the enclosures of a plain feed: a url and a version
FeedAttrs ==
    {<< <<ATTR_URL, u>>, <<ATTR_VERSION, v>> >> :
        u \in {Url1, Url2}, v \in {V_1_5, V_2_0}}

HasAttr(attrs, name) == \E i \in 1..Len(attrs) : attrs[i][1] = name
AttrValue(attrs, name) ==
    attrs[CHOOSE i \in 1..Len(attrs) : attrs[i][1] = name][2]

\* the open elements st put what comes next inside an item inside a channel
InsideItem(st) ==
    \E i, j \in 1..Len(st) : i < j /\ st[i] = NODE_CHANNEL /\ st[j] = NODE_ITEM

\* an <enclosure> of the document as the claims speak of it: its
\* sparkle:version and its url, each <<>> when absent and <<value>> when
\* present
Enclosure(attrs) ==
    [version |-> IF HasAttr(attrs, ATTR_VERSION)
                 THEN <<AttrValue(attrs, ATTR_VERSION)>> ELSE <<>>,
     url |-> IF HasAttr(attrs, ATTR_URL)
             THEN <<AttrValue(attrs, ATTR_URL)>> ELSE <<>>]

NoEvent == [kind |-> "none", name |-> "", attrs |-> <<>>, text |-> <<>>]
\* what a parse has consumed of its document: the number of elements and of
\* character-data events, the enclosures met inside an item inside a
\* channel, whether an enclosure was met outside of one, and whether an
\* <item> was met anywhere
NewXml ==
    [elements |-> 0, texts |-> 0, enclosures |-> {}, outside |-> FALSE,
     item |-> FALSE]
NoCheck == [currentVersion |-> <<>>, manual |-> FALSE, toSkip |-> <<>>]

\* the attributes of the enclosures of a document of any elements
StrayAttrs ==
    {<< <<ATTR_URL, Url1>>, <<ATTR_VERSION, V_2_0>> >>,
     << <<ATTR_URL, Url2>>, <<ATTR_VERSION, V_1_5>>,
        <<ATTR_SHORTVERSION, Short1>> >>}

InstalledVersions == {V_1_0, V_2_0}

\* what Settings::ReadConfigValue("SkipThisVersion") gives: <<>> when there
\* is no such value, <<v>> when v is stored
SkipSettings == {<<>>, <<V_1_5>>, <<V_2_0>>}

\* XML_Parse calls OnStartElement for the next start tag; the document is
\* made of the elements names, its enclosures carry one of encAttrs, and it
\* has at most maxElements elements
XmlStartElement(names, encAttrs, maxElements) ==
    /\ pc = "parsing"
    /\ ~rootClosed
    /\ Len(stack) < MaxDepth
    /\ xml.elements < maxElements
    /\ \E name \in names :
        \E attrs \in (IF name = NODE_ENCLOSURE THEN encAttrs ELSE {<<>>}) :
        LET st == OnStartElement([ctxt |-> ctxt, appcast |-> appcast,
                                  last_version |-> last_version], name, attrs)
        IN  /\ ctxt' = st.ctxt
            /\ appcast' = st.appcast
            /\ last_version' = st.last_version
            /\ stack' = Append(stack, name)
            /\ event' = [kind |-> "start", name |-> name, attrs |-> attrs,
                         text |-> <<>>]
            /\ xml' = [xml EXCEPT
                        !.elements = @ + 1,
                        !.enclosures =
                            IF name = NODE_ENCLOSURE /\ InsideItem(stack)
                            THEN @ \cup {Enclosure(attrs)}
                            ELSE @,
                        !.outside =
                            @ \/ (name = NODE_ENCLOSURE /\ ~InsideItem(stack)),
                        !.item = @ \/ name = NODE_ITEM]
    /\ UNCHANGED <<rootClosed, earlier, before, calls, pc, notified, check,
                   lastCheckTime, runs>>

\* XML_Parse calls OnEndElement for the end tag of the innermost open element
XmlEndElement ==
    /\ pc = "parsing"
    /\ stack # <<>>
    /\ LET name == stack[Len(stack)]
       IN  /\ ctxt' = OnEndElement(ctxt, name)
           /\ event' = [kind |-> "end", name |-> name, attrs |-> <<>>,
                        text |-> <<>>]
    /\ stack' = SubSeq(stack, 1, Len(stack) - 1)
    /\ rootClosed' = (Len(stack) = 1)
    /\ UNCHANGED <<appcast, last_version, xml, earlier, before, calls, pc,
                   notified, check, lastCheckTime, runs>>

\* XML_Parse calls OnText for character data inside the open element
XmlText ==
    /\ pc = "parsing"
    /\ stack # <<>>
    /\ xml.texts < MaxTexts
    /\ \E s \in TextChunks :
        /\ appcast' = OnText(appcast, ctxt, s)
        /\ event' = [kind |-> "text", name |-> stack[Len(stack)],
                     attrs |-> <<>>, text |-> s]
    /\ xml' = [xml EXCEPT !.texts = @ + 1]
    /\ UNCHANGED <<ctxt, last_version, stack, rootClosed, earlier, before,
                   calls, pc, notified, check, lastCheckTime, runs>>

\* ShouldSkipUpdate without the override of ManualUpdateChecker: the manual
\* check honours SkipThisVersion too
ShouldSkipUpdate_NoOverride(manual, toSkip, a) ==
    IF toSkip # <<>> THEN toSkip[1] = a.Version ELSE FALSE

\* UpdateChecker::ShouldSkipUpdate, and ManualUpdateChecker's override
ShouldSkipUpdate(manual, toSkip, a) ==
    IF manual THEN FALSE
    ELSE IF toSkip # <<>> THEN toSkip[1] = a.Version
    ELSE FALSE

\* the notification of Run once Load has returned and LastCheckTime is written
RunNotification(currentVersion, manual, toSkip, a) ==
    IF CompareVersions(currentVersion, a.Version) >= 0 THEN "NotifyNoUpdates"
    ELSE IF ShouldSkipUpdate(manual, toSkip, a) THEN "NotifyNoUpdates"
    ELSE "NotifyUpdateAvailable"

\* versions of the enclosures the parse met inside items
VersionsInItems(x) ==
    {e.version[1] : e \in {d \in x.enclosures : d.version # <<>>}}

\* Run from its start up to the call of XML_Parse in Appcast::Load:
\* any of the steps before it may throw, which the catch turns into
\* NotifyUpdateError
RunStart ==
    /\ pc \in {"idle", "done"}
    /\ runs < MaxRuns
    /\ runs' = runs + 1
    /\ earlier' = IF pc = "done" /\ event.kind = "eof"
                  THEN earlier \cup VersionsInItems(xml)
                  ELSE earlier
    /\ \E step \in {"url_empty", "download_failed", "parser_not_created", "parse"} :
        /\ IF step = "parse"
           THEN /\ pc' = "parsing"
                /\ notified' = <<>>
           ELSE /\ pc' = "done"
                /\ notified' = <<"NotifyUpdateError">>
        /\ calls' =
              IF step = "url_empty" THEN <<"GetAppcastURL", "throw">>
              ELSE IF step = "download_failed"
              THEN <<"GetAppcastURL", "DownloadFile", "throw">>
              ELSE IF step = "parser_not_created"
              THEN <<"GetAppcastURL", "DownloadFile", "Load", "throw">>
              ELSE <<"GetAppcastURL", "DownloadFile", "Load">>
    /\ before' = last_version
    /\ appcast' = EmptyAppcast
    /\ ctxt' = NewContextData
    /\ stack' = <<>>
    /\ rootClosed' = FALSE
    /\ event' = NoEvent
    /\ xml' = NewXml
    /\ check' = NoCheck
    /\ UNCHANGED <<last_version, lastCheckTime>>

\* the first Run of the process
FirstRun == pc = "idle" /\ RunStart

\* XmlError with Load returning normally in spite of XML_STATUS_ERROR: Run
\* goes on with the descriptor as far as it was filled
XmlError_NoThrow ==
    /\ pc = "parsing"
    /\ pc' = "done"
    /\ lastCheckTime' = lastCheckTime + 1
    /\ notified' = Append(notified,
            RunNotification(V_1_0, TRUE, <<>>, appcast))
    /\ event' = [NoEvent EXCEPT !.kind = "error"]
    /\ calls' = Append(calls, "WriteConfigValue")
    /\ UNCHANGED <<last_version, appcast, ctxt, stack, rootClosed, xml,
                   earlier, before, check, runs>>

\* XmlError with a catch block that rethrows without NotifyUpdateError
XmlError_NoNotify ==
    /\ pc = "parsing"
    /\ pc' = "done"
    /\ event' = [NoEvent EXCEPT !.kind = "error"]
    /\ calls' = Append(calls, "throw")
    /\ UNCHANGED <<last_version, appcast, ctxt, stack, rootClosed, xml,
                   earlier, before, notified, check, lastCheckTime, runs>>

\* XML_Parse returns XML_STATUS_ERROR: Load throws, Run catches, notifies and
\* rethrows
XmlError ==
    /\ pc = "parsing"
    /\ pc' = "done"
    /\ notified' = Append(notified, "NotifyUpdateError")
    /\ event' = [NoEvent EXCEPT !.kind = "error"]
    /\ calls' = Append(calls, "throw")
    /\ UNCHANGED <<last_version, appcast, ctxt, stack, rootClosed, xml,
                   earlier, before, check, lastCheckTime, runs>>

\* XML_Parse returns XML_STATUS_OK at the end of a well-formed document: Load
\* returns and Run goes on to its end; the installed version is one of
\* installed and the SkipThisVersion setting one of skips.  Each call of
\* Settings inside the try block may throw, which the catch turns into
\* NotifyUpdateError: WriteConfigValue, GetAppBuildVersion (after LastCheckTime
\* is written) and the ReadConfigValue of UpdateChecker::ShouldSkipUpdate,
\* reached only when the appcast is newer and the check is not a manual one.
\* The calls of UI end their paths and return.
XmlDone(installed, skips) ==
    /\ pc = "parsing"
    /\ rootClosed
    /\ pc' = "done"
    /\ event' = [NoEvent EXCEPT !.kind = "eof"]
    /\ \E step \in {"write_throws", "version_throws", "skip_throws", "return"} :
        IF step = "write_throws"
        THEN /\ notified' = Append(notified, "NotifyUpdateError")
             /\ calls' = calls \o <<"WriteConfigValue", "throw">>
             /\ UNCHANGED <<lastCheckTime, check>>
        ELSE IF step = "version_throws"
        THEN /\ lastCheckTime' = lastCheckTime + 1
             /\ notified' = Append(notified, "NotifyUpdateError")
             /\ calls' = calls \o <<"WriteConfigValue", "GetAppBuildVersion", "throw">>
             /\ UNCHANGED check
        ELSE /\ lastCheckTime' = lastCheckTime + 1
             /\ \E currentVersion \in installed, manual \in BOOLEAN,
                  toSkip \in skips :
                 LET reads == CompareVersions(currentVersion, appcast.Version) < 0
                              /\ ~manual
                 IN  /\ check' = [currentVersion |-> currentVersion,
                                  manual |-> manual, toSkip |-> toSkip]
                     /\ IF step = "skip_throws"
                        THEN /\ reads
                             /\ toSkip = <<>>
                             /\ notified' = Append(notified, "NotifyUpdateError")
                             /\ calls' = calls \o <<"WriteConfigValue",
                                    "GetAppBuildVersion", "ReadConfigValue", "throw">>
                        ELSE /\ notified' = Append(notified,
                                    RunNotification(currentVersion, manual, toSkip, appcast))
                             /\ calls' = calls \o <<"WriteConfigValue", "GetAppBuildVersion">>
                                    \o (IF reads THEN <<"ReadConfigValue">> ELSE <<>>)
    /\ UNCHANGED <<last_version, appcast, ctxt, stack, rootClosed, xml,
                   earlier, before, runs>>

----------------------------------------------------------------------------
(* Two checker threads: UpdateChecker is a Thread, and the automatic and the
   manual check may run Appcast::Load at the same time on the one static
   last_version.  Each parse meets the enclosures of the items of its feed;
   the enclosure branch of OnStartElement is the loop that compares with
   last_version and the loop that copies, and "last_version = attrs[i + 1]"
   in the latter is the operator= of std::string for a C string, which is
   _M_replace(0, size(), s, strlen(s)): it reads the length twice, moves
   the bytes behind the replaced ones, copies s and stores the new length,
   nothing of which is synchronised. *)

Threads == {1, 2}

\* a std::string keeps up to LocalCapacity bytes and the NUL behind them in
\* a buffer of its own
LocalCapacity == 15
LocalSize == LocalCapacity + 1

\* the buffer of last_version: the string and the bytes behind it
Buffer == last_version \o stale

\* the buffer holds b and the string is its first n bytes
SetBuffer(b, n) ==
    /\ last_version' = SubSeq(b, 1, n)
    /\ stale' = SubSeq(b, n + 1, LocalSize)

\* a checker thread that has not called Load: its own Appcast, the
\* attributes of the enclosure it is handling (the argument of
\* OnStartElement, gone when the handler returns), the number of enclosures
\* met, and, while it assigns to last_version, the locals of _M_replace:
\* len1, old_size, the bytes _S_move has loaded and the positions of s not
\* copied yet; held is
\* last_version as it was when the assignment began.
\* pc is "killed" once the process has been terminated by a signal.
NewParse ==
    [pc |-> "idle", appcast |-> EmptyAppcast, attrs |-> <<>>, enclosures |-> 0,
     len1 |-> 0, old_size |-> 0, tail |-> <<>>, pending |-> {}, held |-> <<>>]

\* the attributes of the enclosures of the feeds the threads load: the
\* versions of a plain feed, under one url
ThreadAttrs ==
    {<< <<ATTR_URL, Url1>>, <<ATTR_VERSION, v>> >> : v \in {V_1_5, V_2_0}}

\* Run of thread t calls Load with a new Appcast
LoadStart(t) ==
    /\ parses[t].pc = "idle"
    /\ parses' = [parses EXCEPT ![t].pc = "ready"]
    /\ UNCHANGED <<last_version, stale>>

\* the bytes position i of a std::string may hold while a and b are assigned
\* to it without synchronisation: the byte of either value, or the
\* terminating NUL an assignment stores behind its last byte
TornByte(a, b, i) ==
    (IF i <= Len(a) THEN {a[i]} ELSE {})
        \cup (IF i <= Len(b) THEN {b[i]} ELSE {}) \cup {0}

RECURSIVE TornBytes(_, _, _)
\* the strings of n bytes, each byte one of TornByte
TornBytes(a, b, n) ==
    IF n = 0 THEN {<<>>}
    ELSE {Append(s, c) : s \in TornBytes(a, b, n - 1), c \in TornByte(a, b, n)}

\* what a reader, whose reads of the length and of the bytes are spread over
\* time, may find in a std::string that holds old while v is being assigned
\* to it (a data race: undefined behaviour): the length of either value,
\* each byte one of TornByte
TornRead(old, v) ==
    TornBytes(old, v, Len(old)) \cup TornBytes(old, v, Len(v)) \cup {old, v}

\* the s of the operator= thread t is in: the sparkle:version it assigns
AssignedValue(t) == AttrValue(parses[t].attrs, ATTR_VERSION)

\* where a thread stands inside operator=
AssignPcs == {"replace", "move", "moved", "copying", "terminate"}

\* the versions the threads other than t are assigning: they stand inside
\* operator=
Assigning(t) ==
    {AssignedValue(u) :
        u \in {w \in Threads \ {t} : parses[w].pc \in AssignPcs}}

\* OnStartElement of thread t for an <enclosure> inside an item, up to
\* "if (go == 1)".  The reads of last_version are not synchronised: while
\* another thread is assigning it they race with the assignment, and the
\* comparison is made on what the buffer holds or on any value of TornRead.
EnclosureCompare(t) ==
    /\ parses[t].pc = "ready"
    /\ parses[t].enclosures < MaxEnclosures
    /\ \E attrs \in ThreadAttrs :
       \E go \in {EnclosureGo(seen, attrs) :
                    seen \in {last_version}
                        \cup UNION {TornRead(last_version, v) : v \in Assigning(t)}} :
        parses' = [parses EXCEPT
                    ![t].pc = IF go = 1 THEN "copy" ELSE "ready",
                    ![t].attrs = IF go = 1 THEN attrs ELSE <<>>,
                    ![t].enclosures = @ + 1]
    /\ UNCHANGED <<last_version, stale>>

\* OnStartElement of thread t from "if (go == 1)" on: the copy loop, whose
\* assignments to the thread's own Appcast are seen by nobody else, up to
\* the call of _M_replace(0, this->size(), s, n) for last_version, which
\* reads the length for len1
EnclosureCopy(t) ==
    /\ parses[t].pc = "copy"
    /\ LET r == CopyLoop([appcast |-> parses[t].appcast,
                          last_version |-> last_version], parses[t].attrs, 1)
       IN  parses' = [parses EXCEPT
                       ![t] = IF HasAttr(parses[t].attrs, ATTR_VERSION)
                              THEN [@ EXCEPT !.pc = "replace",
                                             !.appcast = r.appcast,
                                             !.len1 = Len(last_version),
                                             !.held = last_version]
                              ELSE [@ EXCEPT !.pc = "ready",
                                             !.appcast = r.appcast,
                                             !.attrs = <<>>]]
    /\ UNCHANGED <<last_version, stale>>

\* _M_replace of thread t reads the length again: old_size.  (new_size,
\* old_size + n - len1, stays within the local capacity for the versions
\* of ThreadAttrs: _M_mutate, which allocates, is not reached.)
ReplaceSize(t) ==
    /\ parses[t].pc = "replace"
    /\ parses' = [parses EXCEPT ![t].pc = "move",
                                ![t].old_size = Len(last_version)]
    /\ UNCHANGED <<last_version, stale>>

\* _M_replace of thread t: "if (how_much && len1 != len2) _S_move(p + len2,
\* p + len1, how_much)" with how_much = old_size - len1, a memmove, which
\* loads the bytes and then stores them: the loads.  how_much is unsigned:
\* when another assignment has made the string shorter than len1 it is huge,
\* and the move runs out of the mapped memory: SIGSEGV.
ReplaceMove(t) ==
    /\ parses[t].pc = "move"
    /\ LET len1 == parses[t].len1
           len2 == Len(AssignedValue(t))
           how_much == parses[t].old_size - len1
       IN  parses' =
             IF how_much # 0 /\ len1 # len2
             THEN IF how_much < 0
                  THEN [u \in Threads |-> [parses[u] EXCEPT !.pc = "killed"]]
                  ELSE [parses EXCEPT
                         ![t].pc = "moved",
                         ![t].tail = SubSeq(Buffer, len1 + 1, len1 + how_much)]
             ELSE [parses EXCEPT ![t].pc = "copying", ![t].pending = 1..len2]
    /\ UNCHANGED <<last_version, stale>>

\* _M_replace of thread t: the stores of _S_move, behind the place of s
ReplaceMoved(t) ==
    /\ parses[t].pc = "moved"
    /\ LET len2 == Len(AssignedValue(t))
           tail == parses[t].tail
       IN  /\ SetBuffer([i \in 1..LocalSize |->
                           IF i > len2 /\ i <= len2 + Len(tail)
                           THEN tail[i - len2] ELSE Buffer[i]],
                        Len(last_version))
           /\ parses' = [parses EXCEPT ![t].pc = "copying", ![t].tail = <<>>,
                                       ![t].pending = 1..len2]

\* _M_replace of thread t: _S_copy(p, s, len2), a memcpy, which stores the
\* bytes of s in pieces and in an order of its own: one byte of s
ReplaceCopy(t) ==
    /\ parses[t].pc = "copying"
    /\ \E i \in parses[t].pending :
        /\ SetBuffer([Buffer EXCEPT ![i] = AssignedValue(t)[i]], Len(last_version))
        /\ parses' = [parses EXCEPT ![t].pending = @ \ {i}]

\* new_size of the _M_replace thread t is in
NewSize(t) == parses[t].old_size + Len(AssignedValue(t)) - parses[t].len1

\* _M_replace of thread t: _M_set_length(new_size) stores the length
ReplaceSetLength(t) ==
    /\ parses[t].pc = "copying"
    /\ parses[t].pending = {}
    /\ SetBuffer(Buffer, NewSize(t))
    /\ parses' = [parses EXCEPT ![t].pc = "terminate"]

\* _M_replace of thread t: _M_set_length stores the NUL behind the string;
\* operator= and the handler return
ReplaceTerminate(t) ==
    /\ parses[t].pc = "terminate"
    /\ SetBuffer([Buffer EXCEPT ![NewSize(t) + 1] = 0], Len(last_version))
    /\ parses' = [parses EXCEPT ![t].pc = "ready", ![t].attrs = <<>>,
                                ![t].len1 = 0, ![t].old_size = 0,
                                ![t].held = <<>>]

\* XML_Parse of thread t returns at the end of the feed
LoadReturn(t) ==
    /\ parses[t].pc = "ready"
    /\ parses' = [parses EXCEPT ![t].pc = "done"]
    /\ UNCHANGED <<last_version, stale>>

----------------------------------------------------------------------------
(* Specifications *)

RunInit ==
    /\ last_version = <<>>
    /\ appcast = EmptyAppcast
    /\ ctxt = NewContextData
    /\ stack = <<>>
    /\ rootClosed = FALSE
    /\ event = NoEvent
    /\ xml = NewXml
    /\ earlier = {}
    /\ before = <<>>
    /\ calls = <<>>
    /\ pc = "idle"
    /\ notified = <<>>
    /\ check = NoCheck
    /\ lastCheckTime = 0
    /\ runs = 0
    /\ parses = [t \in Threads |-> NewParse]
    /\ stale = [i \in 1..LocalSize |-> 0]

Init ==
    /\ verA = <<>> /\ verB = <<>> /\ verC = <<>>
    /\ result = NoResult
    /\ RunInit

\* the update checks of one process, one after the other, on feeds of
\* channels, items and enclosures that carry a url and a version
Next ==
    \/ RunStart /\ UNCHANGED <<cmpVars, threadVars>>
    \/ XmlStartElement(FeedNames, FeedAttrs, MaxFeedElements) /\ UNCHANGED <<cmpVars, threadVars>>
    \/ XmlEndElement /\ UNCHANGED <<cmpVars, threadVars>>
    \/ XmlError /\ UNCHANGED <<cmpVars, threadVars>>
    \/ XmlDone(InstalledVersions, SkipSettings) /\ UNCHANGED <<cmpVars, threadVars>>

Spec == Init /\ [][Next]_vars

\* the update checks of one process, each of which runs to its end
LiveNext ==
    \/ RunStart /\ UNCHANGED <<cmpVars, threadVars>>
    \/ XmlStartElement(FeedNames, FeedAttrs, MaxElements) /\ UNCHANGED <<cmpVars, threadVars>>
    \/ XmlEndElement /\ UNCHANGED <<cmpVars, threadVars>>
    \/ XmlError /\ UNCHANGED <<cmpVars, threadVars>>
    \/ XmlDone(InstalledVersions, SkipSettings) /\ UNCHANGED <<cmpVars, threadVars>>

\* XML_Parse is a synchronous call: once Load has called it, it delivers its
\* callbacks one after the other and returns
XmlParse == pc = "parsing" /\ LiveNext

SpecLive == Init /\ [][LiveNext]_vars /\ WF_vars(XmlParse)

\* the first update check of a process, on feeds of channels, items and
\* enclosures with any of their attributes present or absent, by an
\* application at "1.0" with no version to skip
DocNext ==
    \/ FirstRun /\ UNCHANGED <<cmpVars, threadVars>>
    \/ XmlStartElement(FeedNames, EnclosureAttrs, MaxFeedElements) /\ UNCHANGED <<cmpVars, threadVars>>
    \/ XmlEndElement /\ UNCHANGED <<cmpVars, threadVars>>
    \/ XmlError /\ UNCHANGED <<cmpVars, threadVars>>
    \/ XmlDone({V_1_0}, {<<>>}) /\ UNCHANGED <<cmpVars, threadVars>>

SpecDoc == Init /\ [][DocNext]_vars

\* the update checks of one process on documents of every element the
\* parser knows and of character data, whose enclosures carry no attribute,
\* by an application at "1.0" with no version to skip
TextNext ==
    \/ RunStart /\ UNCHANGED <<cmpVars, threadVars>>
    \/ XmlStartElement(ElementNames, {<<>>}, MaxTextElements) /\ UNCHANGED <<cmpVars, threadVars>>
    \/ XmlEndElement /\ UNCHANGED <<cmpVars, threadVars>>
    \/ XmlText /\ UNCHANGED <<cmpVars, threadVars>>
    \/ XmlError /\ UNCHANGED <<cmpVars, threadVars>>
    \/ XmlDone({V_1_0}, {<<>>}) /\ UNCHANGED <<cmpVars, threadVars>>

SpecText == Init /\ [][TextNext]_vars

\* the update checks of one process on documents of every element the
\* parser knows and of character data, whose enclosures carry a version, by
\* an application at "1.0" with no version to skip
StrayNext ==
    \/ RunStart /\ UNCHANGED <<cmpVars, threadVars>>
    \/ XmlStartElement(ElementNames, StrayAttrs, MaxStrayElements) /\ UNCHANGED <<cmpVars, threadVars>>
    \/ XmlEndElement /\ UNCHANGED <<cmpVars, threadVars>>
    \/ XmlText /\ UNCHANGED <<cmpVars, threadVars>>
    \/ XmlError /\ UNCHANGED <<cmpVars, threadVars>>
    \/ XmlDone({V_1_0}, {<<>>}) /\ UNCHANGED <<cmpVars, threadVars>>

SpecStray == Init /\ [][StrayNext]_vars

\* two checker threads parsing their feeds at the same time
ThreadsNext ==
    \/ \E t \in Threads : LoadStart(t) /\ UNCHANGED <<cmpVars, checkerVars>>
    \/ \E t \in Threads : EnclosureCompare(t) /\ UNCHANGED <<cmpVars, checkerVars>>
    \/ \E t \in Threads : EnclosureCopy(t) /\ UNCHANGED <<cmpVars, checkerVars>>
    \/ \E t \in Threads : ReplaceSize(t) /\ UNCHANGED <<cmpVars, checkerVars>>
    \/ \E t \in Threads : ReplaceMove(t) /\ UNCHANGED <<cmpVars, checkerVars>>
    \/ \E t \in Threads : ReplaceMoved(t) /\ UNCHANGED <<cmpVars, checkerVars>>
    \/ \E t \in Threads : ReplaceCopy(t) /\ UNCHANGED <<cmpVars, checkerVars>>
    \/ \E t \in Threads : ReplaceSetLength(t) /\ UNCHANGED <<cmpVars, checkerVars>>
    \/ \E t \in Threads : ReplaceTerminate(t) /\ UNCHANGED <<cmpVars, checkerVars>>
    \/ \E t \in Threads : LoadReturn(t) /\ UNCHANGED <<cmpVars, checkerVars>>

SpecThreads == Init /\ [][ThreadsNext]_vars

\* CompareVersions on every pair of bounded version strings
CmpInit ==
    /\ verA \in CmpVersions
    /\ verB \in CmpVersions
    /\ verC = <<>>
    /\ result = NoResult
    /\ RunInit

CmpNext == CallCompareVersions /\ UNCHANGED <<runVars, threadVars>>

SpecCmp == CmpInit /\ [][CmpNext]_vars

\* CompareVersions on every triple of well-formed bounded version strings
TransInit ==
    /\ verA \in WellFormedVersions
    /\ verB \in WellFormedVersions
    /\ verC \in WellFormedVersions
    /\ result = NoResult
    /\ RunInit

SpecTrans == TransInit /\ [][CmpNext]_vars

----------------------------------------------------------------------------
(* Properties of CompareVersions *)

Sign(x) == IF x > 0 THEN 1 ELSE IF x < 0 THEN -1 ELSE 0

\* the class of a component
TokenClass(t) == ClassifyChar(t[1])

\* C5: for all version strings a and b over digits, periods and letters
\* (the empty string, leading zeros and consecutive periods included),
\* CompareVersions(a, a) is zero and the sign of CompareVersions(a, b) is
\* the negation of the sign of CompareVersions(b, a).
C5_ReflexiveAntisymmetric ==
    result.called =>
        /\ result.aa = 0
        /\ Sign(result.ab) = 0 - Sign(result.ba)

\* "01" against "..": a leading zero against consecutive periods
C5_Witness ==
    /\ result.called
    /\ verA = <<48, 49>>
    /\ verB = <<46, 46>>
    /\ result.ab > 0
    /\ result.ba < 0

\* C6: CompareVersions is transitive on well-formed dotted-numeric-with-suffix
\* version strings: if CompareVersions(a, b) > 0 and CompareVersions(b, c) > 0
\* then CompareVersions(a, c) > 0.
C6_Transitive ==
    (result.called /\ result.ab > 0 /\ result.bc > 0) => result.ac > 0

\* "1.5" > "1.5b3" > "1.0"
C6_Witness ==
    /\ result.called
    /\ verA = V_1_5 /\ verB = V_1_5b3 /\ verC = V_1_0
    /\ result.ab > 0 /\ result.bc > 0 /\ result.ac > 0

\* two components at the same position that do not decide the comparison
TokensAgree(a, b) ==
    /\ TokenClass(a) = TokenClass(b)
    /\ \/ TokenClass(a) = "Type_Period"
       \/ TokenClass(a) = "Type_Number" /\ Atoi(a) = Atoi(b)
       \/ TokenClass(a) = "Type_String" /\ a = b

\* C7: when the components of A and B agree over the whole length of the
\* shorter sequence and the lengths differ, the result depends only on the
\* class of the first extra component of the longer one: a string component
\* makes the shorter version the greater, a number or a period the longer
\* one; with equal lengths the result is zero.  Hence cmp("1.5","1.5b3") > 0,
\* cmp("1.5.1","1.5") > 0, cmp("1.0","1.0.0") < 0 and cmp("2.0","2.0") = 0.
C7_TailRule ==
    result.called =>
        LET pa == SplitVersionString(verA)
            pb == SplitVersionString(verB)
            n == Min(Len(pa), Len(pb))
            extra == IF Len(pa) > Len(pb) THEN pa[n + 1] ELSE pb[n + 1]
            longerIsA == Len(pa) > Len(pb)
        IN  /\ (\A i \in 1..n : TokensAgree(pa[i], pb[i])) =>
                IF Len(pa) = Len(pb) THEN result.ab = 0
                ELSE IF TokenClass(extra) = "Type_String"
                THEN (IF longerIsA THEN result.ab < 0 ELSE result.ab > 0)
                ELSE (IF longerIsA THEN result.ab > 0 ELSE result.ab < 0)
            /\ (verA = V_1_5 /\ verB = V_1_5b3) => result.ab > 0
            /\ (verA = V_1_5_1 /\ verB = V_1_5) => result.ab > 0
            /\ (verA = V_1_0 /\ verB = V_1_0_0) => result.ab < 0
            /\ (verA = V_2_0 /\ verB = V_2_0) => result.ab = 0

\* cmp("1.5", "1.5b3") has been computed
C7_Witness ==
    /\ result.called
    /\ verA = V_1_5 /\ verB = V_1_5b3
    /\ result.ab > 0

\* two digit strings as base-10 integers of any size: without their leading
\* zeros the longer is the greater, equal lengths compare digit by digit
DecimalCompare(a, b) ==
    LET da == SubSeq(a, SkipZeros(a, 1), Len(a))
        db == SubSeq(b, SkipZeros(b, 1), Len(b))
    IN  IF Len(da) # Len(db) THEN Sign(Len(da) - Len(db))
        ELSE Sign(StringCompare(da, db))

\* the rank of a class at one position: string below period below number
ClassRank(c) ==
    IF c = "Type_String" THEN 0 ELSE IF c = "Type_Period" THEN 1 ELSE 2

\* how two components at the same position compare: 0 when they do not
\* decide
TokenOrder(a, b) ==
    IF TokenClass(a) # TokenClass(b)
    THEN Sign(ClassRank(TokenClass(a)) - ClassRank(TokenClass(b)))
    ELSE IF TokenClass(a) = "Type_String" THEN Sign(StringCompare(a, b))
    ELSE IF TokenClass(a) = "Type_Number" THEN DecimalCompare(a, b)
    ELSE 0

\* C8: the result of CompareVersions is fixed by the first decisive pair of
\* components: two string components compare as byte strings, two numbers as
\* base-10 integers ("01" equals "1"), two periods never decide, a number or
\* a period is greater than a string component and a number greater than a
\* period; nothing after that pair changes the result.
C8_FirstDecisivePair ==
    result.called =>
        LET pa == SplitVersionString(verA)
            pb == SplitVersionString(verB)
            n == Min(Len(pa), Len(pb))
            decisive == {i \in 1..n : TokenOrder(pa[i], pb[i]) # 0}
        IN  decisive # {} =>
                LET first == CHOOSE i \in decisive : \A j \in decisive : i <= j
                IN  Sign(result.ab) = TokenOrder(pa[first], pb[first])

----------------------------------------------------------------------------
(* Properties of the enclosure selection *)

\* the step is the start of an <enclosure> met with a positive item depth
EnclosureStep ==
    /\ event'.kind = "start"
    /\ event'.name = NODE_ENCLOSURE
    /\ (ctxt.in_item > 0 \/ InsideItem(stack))

\* every attribute present in attrs has been copied to its field
Copied(attrs) ==
    /\ HasAttr(attrs, ATTR_URL) =>
           appcast'.DownloadURL = AttrValue(attrs, ATTR_URL)
    /\ HasAttr(attrs, ATTR_SHORTVERSION) =>
           appcast'.ShortVersionString = AttrValue(attrs, ATTR_SHORTVERSION)
    /\ HasAttr(attrs, ATTR_VERSION) =>
           /\ appcast'.Version = AttrValue(attrs, ATTR_VERSION)
           /\ last_version' = AttrValue(attrs, ATTR_VERSION)

\* C1: when last_version is non-empty, an enclosure start inside an item is
\* accepted if and only if it carries a sparkle:version that CompareVersions
\* ranks strictly greater than last_version; an enclosure with an equal or
\* lower version, or with no sparkle:version, changes neither DownloadURL,
\* Version, ShortVersionString nor last_version.
C1_AcceptOnlyNewer ==
    [][(EnclosureStep /\ last_version # <<>>) =>
        LET attrs == event'.attrs
            newer == /\ HasAttr(attrs, ATTR_VERSION)
                     /\ CompareVersions(AttrValue(attrs, ATTR_VERSION),
                                        last_version) > 0
        IN  IF newer THEN Copied(attrs)
            ELSE /\ appcast'.DownloadURL = appcast.DownloadURL
                 /\ appcast'.Version = appcast.Version
                 /\ appcast'.ShortVersionString = appcast.ShortVersionString
                 /\ last_version' = last_version]_vars

\* an enclosure at "1.5" with url "u2" has just been refused, "2.0" from
\* "u1" stays
C1_Witness ==
    /\ event.kind = "start" /\ event.name = NODE_ENCLOSURE
    /\ event.attrs = << <<ATTR_URL, Url2>>, <<ATTR_VERSION, V_1_5>> >>
    /\ ctxt.in_item > 0
    /\ last_version = V_2_0
    /\ appcast.Version = V_2_0 /\ appcast.DownloadURL = Url1

\* C2: when last_version is empty, every enclosure start inside an item is
\* accepted: right after an enclosure with sparkle:version = v, Version and
\* last_version both equal v, and DownloadURL and ShortVersionString equal
\* the enclosure's url and sparkle:shortVersionString when present.
C2_FirstAccepted ==
    [][(EnclosureStep /\ last_version = <<>>) => Copied(event'.attrs)]_vars

\* the first enclosure of the first parse, with its three attributes copied
C2_Witness ==
    /\ event.kind = "start" /\ event.name = NODE_ENCLOSURE
    /\ event.attrs = << <<ATTR_URL, Url1>>, <<ATTR_VERSION, V_1_5>>,
                        <<ATTR_SHORTVERSION, Short1>> >>
    /\ Cardinality(xml.enclosures) = 1
    /\ ctxt.in_item > 0
    /\ last_version = V_1_5 /\ appcast.Version = V_1_5
    /\ appcast.DownloadURL = Url1 /\ appcast.ShortVersionString = Short1

\* Load has returned normally
ParsedOk == pc = "done" /\ event.kind = "eof"

\* every enclosure of the document stands inside an item and carries a url
\* and a non-empty sparkle:version, and there is one at least
RegularFeed(x) ==
    /\ x.enclosures # {}
    /\ ~x.outside
    /\ \A e \in x.enclosures :
        e.url # <<>> /\ e.version # <<>> /\ e.version[1] # <<>>

\* C3 as claimed: at the end of every successful parse, on a new descriptor
\* each time, Version is that of the highest-versioned enclosure met so far
\* in this and in all earlier parses: with "2.0" met before, a parse whose
\* only enclosure is at "1.5" ends with Version "2.0".  Stated for a parse
\* of a regular feed that follows a successful parse that met enclosures.
C3_HighestAcrossParses ==
    (ParsedOk /\ RegularFeed(xml) /\ earlier # {}) =>
        LET met == earlier \cup VersionsInItems(xml)
        IN  /\ appcast.Version \in met
            /\ \A v \in met : ~(CompareVersions(v, appcast.Version) > 0)

\* C4: a single parse that starts with an empty last_version and an empty
\* descriptor, over a channel whose items hold enclosures with a url and a
\* non-empty sparkle:version, in any order, ends with Version an enclosure
\* version v than which no enclosure of the document is strictly greater,
\* and with DownloadURL the url of the enclosure that supplied v.
C4_HighestOfDocument ==
    (ParsedOk /\ RegularFeed(xml)) =>
        /\ \E e \in xml.enclosures :
            /\ e.version[1] = appcast.Version
            /\ e.url[1] = appcast.DownloadURL
        /\ \A e \in xml.enclosures :
            ~(CompareVersions(e.version[1], appcast.Version) > 0)

\* enclosures "1.5" from "u1" and "2.0" from "u2": Version "2.0" from "u2"
C4_Witness ==
    /\ ParsedOk
    /\ xml.enclosures =
        {[version |-> <<V_1_5>>, url |-> <<Url1>>],
         [version |-> <<V_2_0>>, url |-> <<Url2>>]}
    /\ ~xml.outside
    /\ appcast.Version = V_2_0
    /\ appcast.DownloadURL = Url2

----------------------------------------------------------------------------
(* Properties of the text fields and of parse errors *)

\* the innermost open elements include name inside an item inside a channel
OpenInItem(st, name) ==
    \E i, j, k \in 1..Len(st) :
        /\ i < j /\ j < k
        /\ st[i] = NODE_CHANNEL /\ st[j] = NODE_ITEM /\ st[k] = name

\* C9 as claimed: a character-data event changes Title, Description or
\* ReleaseNotesURL only inside an open element of that name inside an open
\* item inside an open channel; the text of a title that opens after the
\* item has closed is never appended.
C9_TextOnlyInsideItem ==
    [][event'.kind = "text" =>
        /\ appcast'.Title # appcast.Title => OpenInItem(stack, NODE_TITLE)
        /\ appcast'.Description # appcast.Description =>
               OpenInItem(stack, NODE_DESCRIPTION)
        /\ appcast'.ReleaseNotesURL # appcast.ReleaseNotesURL =>
               OpenInItem(stack, NODE_RELNOTES)]_vars

\* C10: when the tokenizer reports an error, after any number of callbacks,
\* Load fails and Run issues the error notification only: the partly filled
\* descriptor reaches neither the update-available nor the no-updates path
\* and LastCheckTime is not written.
C10_ErrorOnlyNotifiesError ==
    [][/\ event'.kind = "error" =>
            /\ pc' = "done"
            /\ notified' = <<"NotifyUpdateError">>
            /\ lastCheckTime' = lastCheckTime
       /\ (event.kind = "error" /\ notified' # notified) => runs' = runs + 1]_vars

\* the tokenizer failed after the enclosure at "2.0" had been copied
C10_Witness ==
    /\ pc = "done"
    /\ event.kind = "error"
    /\ appcast.Version = V_2_0
    /\ notified = <<"NotifyUpdateError">>
    /\ lastCheckTime = 0

----------------------------------------------------------------------------
(* Properties of documents without items, of character data and of the
   attributes of an enclosure *)

\* C11: parsing a well-formed document that contains no item element into an
\* empty descriptor ends without failure and with all six descriptor fields
\* empty, whatever title, description, releaseNotesLink or enclosure elements
\* and character data it holds and whatever last_version was at the start;
\* last_version is unchanged by such a parse.
C11_NoItemLeavesEmpty ==
    (event.kind = "eof" /\ ~xml.item) =>
        /\ appcast = EmptyAppcast
        /\ last_version = before
        /\ calls[4] = "WriteConfigValue"

\* a second parse, started with last_version "2.0", of a document without
\* item in which an enclosure and character data were met
C11_Witness ==
    /\ ParsedOk
    /\ ~xml.item
    /\ xml.outside
    /\ xml.texts > 0
    /\ before = V_2_0
    /\ last_version = V_2_0
    /\ appcast = EmptyAppcast

\* a is the beginning of b
IsPrefix(a, b) == Len(a) <= Len(b) /\ SubSeq(b, 1, Len(a)) = a

\* the innermost open element is a description inside an item inside a
\* channel: character data met now is delivered inside that description
InsideDescription(st) ==
    /\ Len(st) > 0
    /\ st[Len(st)] = NODE_DESCRIPTION
    /\ OpenInItem(st, NODE_DESCRIPTION)

\* C12 as claimed: each character-data event appends its bytes verbatim to
\* the end of at most one of ReleaseNotesURL, Title, Description and changes
\* no other descriptor field, no counter and not last_version; hence the
\* text fields only ever grow during a parse, and every event delivered
\* inside a description element of an item extends Description by its bytes,
\* so that several events inside one description end up concatenated in call
\* order, nothing lost or reordered.
C12_TextAppends ==
    [][/\ event'.kind = "text" =>
            LET s == event'.text
            IN  /\ ctxt' = ctxt
                /\ last_version' = last_version
                /\ \/ appcast' = appcast
                   \/ appcast' = [appcast EXCEPT !.ReleaseNotesURL = @ \o s]
                   \/ appcast' = [appcast EXCEPT !.Title = @ \o s]
                   \/ appcast' = [appcast EXCEPT !.Description = @ \o s]
                /\ InsideDescription(stack) =>
                       appcast'.Description = appcast.Description \o s
       /\ pc = "parsing" =>
            /\ IsPrefix(appcast.ReleaseNotesURL, appcast'.ReleaseNotesURL)
            /\ IsPrefix(appcast.Title, appcast'.Title)
            /\ IsPrefix(appcast.Description, appcast'.Description)]_vars

\* C13: within an accepted enclosure each of url, sparkle:version and
\* sparkle:shortVersionString is copied to its field if and only if the
\* attribute is present; a field whose attribute is absent keeps its previous
\* value (it is not cleared), and when sparkle:version is absent last_version
\* is not changed.
C13_CopiedIffPresent ==
    [][LET attrs == event'.attrs
           accepted ==
               \/ last_version = <<>>
               \/ /\ HasAttr(attrs, ATTR_VERSION)
                  /\ CompareVersions(last_version,
                                     AttrValue(attrs, ATTR_VERSION)) < 0
       IN  (EnclosureStep /\ accepted) =>
            /\ appcast'.DownloadURL =
                   IF HasAttr(attrs, ATTR_URL)
                   THEN AttrValue(attrs, ATTR_URL) ELSE appcast.DownloadURL
            /\ appcast'.Version =
                   IF HasAttr(attrs, ATTR_VERSION)
                   THEN AttrValue(attrs, ATTR_VERSION) ELSE appcast.Version
            /\ appcast'.ShortVersionString =
                   IF HasAttr(attrs, ATTR_SHORTVERSION)
                   THEN AttrValue(attrs, ATTR_SHORTVERSION)
                   ELSE appcast.ShortVersionString
            /\ last_version' =
                   IF HasAttr(attrs, ATTR_VERSION)
                   THEN AttrValue(attrs, ATTR_VERSION) ELSE last_version]_vars

\* an enclosure carrying nothing but sparkle:version "2.0" has been accepted
\* after one from "u1" with short version "s": url and short version stay
C13_Witness ==
    /\ event.kind = "start" /\ event.name = NODE_ENCLOSURE
    /\ event.attrs = << <<ATTR_VERSION, V_2_0>> >>
    /\ ctxt.in_item > 0
    /\ appcast.Version = V_2_0 /\ last_version = V_2_0
    /\ appcast.DownloadURL = Url1
    /\ appcast.ShortVersionString = Short1

----------------------------------------------------------------------------
(* Properties of UpdateChecker::Run *)

\* the current Run left by an exception
Threw == calls # <<>> /\ calls[Len(calls)] = "throw"

\* Run went through to its notification: download, Load, the write of
\* LastCheckTime and the reads of the settings succeeded
Compared == ParsedOk /\ ~Threw

\* the versions of the enclosures of the document than which none is greater
Highest(x) ==
    {v \in VersionsInItems(x) :
        \A w \in VersionsInItems(x) : ~(CompareVersions(w, v) > 0)}

\* C14 as claimed: every Run whose download and parse succeed on a feed
\* holding an enclosure whose version is strictly greater than the installed
\* one, and which the user has not chosen to skip, ends with the
\* update-available notification carrying that version, on the first check
\* and on every later check of the process.  Stated for the highest version
\* of a regular feed, on the first check and on a check that follows a
\* successful parse of a feed with enclosures.
C14_FoundUpdateIsShown ==
    (Compared /\ RegularFeed(xml) /\ (runs = 1 \/ earlier # {})) =>
        \A v \in Highest(xml) :
            (/\ CompareVersions(v, check.currentVersion) > 0
             /\ (check.manual \/ check.toSkip # <<v>>)) =>
                /\ notified = <<"NotifyUpdateAvailable">>
                /\ appcast.Version = v

\* C17: after a successful download and parse, Run issues the
\* update-available notification if and only if
\* CompareVersions(installed version, Version) < 0 and the checker does not
\* skip the version; the automatic checker skips exactly when a stored
\* SkipThisVersion equals Version, the manual checker never skips; in every
\* other successful case Run issues the no-updates notification.
C17_AvailableIffNewerAndNotSkipped ==
    Compared =>
        LET newer == CompareVersions(check.currentVersion, appcast.Version) < 0
            skips == ~check.manual /\ check.toSkip = <<appcast.Version>>
        IN  notified = IF newer /\ ~skips THEN <<"NotifyUpdateAvailable">>
                       ELSE <<"NotifyNoUpdates">>

\* the manual check of an application at "1.0" shows "2.0" although the
\* user chose to skip it
C17_Witness ==
    /\ Compared
    /\ check = [currentVersion |-> V_1_0, manual |-> TRUE, toSkip |-> <<V_2_0>>]
    /\ appcast.Version = V_2_0
    /\ notified = <<"NotifyUpdateAvailable">>

\* the call that threw
FailedStep == calls[Len(calls) - 1]

\* C18 as claimed: every execution of Run terminates having issued exactly
\* one of the three notifications, whichever of the steps URL lookup,
\* download, parse or settings write fails or succeeds; the error
\* notification is issued exactly when one of those steps failed.
C18_ErrorIffListedStepFailed ==
    pc = "done" =>
        /\ notified \in {<<"NotifyUpdateAvailable">>, <<"NotifyNoUpdates">>,
                          <<"NotifyUpdateError">>}
        /\ notified = <<"NotifyUpdateError">> <=>
               (Threw /\ FailedStep \in {"GetAppcastURL", "DownloadFile", "Load",
                                         "WriteConfigValue"})

\* C18, amended: every execution of Run terminates having issued exactly one
\* of the three notifications, whichever of the steps inside the try block
\* fails or succeeds: URL lookup, download, parse, settings write, and the
\* reads of the installed build version and of SkipThisVersion that follow
\* the write; the error notification is issued exactly when one of those
\* steps failed, and an empty appcast URL leads to the error notification
\* without any download being attempted.
C18_ExactlyOneNotification ==
    /\ [](pc = "parsing" => notified = <<>>)
    /\ [](pc = "done" =>
            /\ notified \in {<<"NotifyUpdateAvailable">>, <<"NotifyNoUpdates">>,
                              <<"NotifyUpdateError">>}
            /\ notified = <<"NotifyUpdateError">> <=> Threw
            /\ Threw => FailedStep \in {"GetAppcastURL", "DownloadFile", "Load",
                            "WriteConfigValue", "GetAppBuildVersion", "ReadConfigValue"}
            /\ calls[2] = "throw" =>
                   /\ notified = <<"NotifyUpdateError">>
                   /\ \A i \in 1..Len(calls) : calls[i] # "DownloadFile")
    /\ (pc = "parsing" ~> pc = "done")

\* the second Run of a process failed in the ReadConfigValue of
\* ShouldSkipUpdate, after a successful parse and the write of LastCheckTime
C18_Witness ==
    /\ pc = "done"
    /\ runs = 2
    /\ calls = <<"GetAppcastURL", "DownloadFile", "Load", "WriteConfigValue",
                 "GetAppBuildVersion", "ReadConfigValue", "throw">>
    /\ event.kind = "eof"
    /\ lastCheckTime > 0
    /\ notified = <<"NotifyUpdateError">>

\* C19 as claimed: a parse that ends in failure, the tokenizer reporting an
\* error after some events were delivered, leaves last_version equal to its
\* value before that parse started, so that the enclosures of a rejected
\* document have no influence on what later parses accept.
C19_FailedParseKeepsLastVersion ==
    (pc = "done" /\ event.kind = "error") => last_version = before

----------------------------------------------------------------------------
(* Properties of the nesting counters *)

\* C15 as claimed: in every state reached by the start and end events of a
\* well-nested document, unusual nestings such as an item opened inside a
\* channel-level title included, each of in_channel, in_item, in_relnotes,
\* in_title, in_description is greater than or equal to zero.
C15_CountersNonNegative ==
    /\ ctxt.in_channel >= 0
    /\ ctxt.in_item >= 0
    /\ ctxt.in_relnotes >= 0
    /\ ctxt.in_title >= 0
    /\ ctxt.in_description >= 0

----------------------------------------------------------------------------
(* Properties of SplitVersionString *)

RECURSIVE Concat(_)
\* the components of list one after the other
Concat(list) == IF list = <<>> THEN <<>> ELSE Head(list) \o Concat(Tail(list))

\* what C16 says of the components of one version string
SplitsWell(version) ==
    LET list == SplitVersionString(version)
    IN  /\ Concat(list) = version
        /\ version = <<>> => list = <<>>
        /\ \A i \in 1..Len(list) :
            /\ list[i] # <<>>
            /\ \A j \in 1..Len(list[i]) :
                   ClassifyChar(list[i][j]) = ClassifyChar(list[i][1])
            /\ TokenClass(list[i]) = "Type_Period" => Len(list[i]) = 1
        /\ \A i \in 1..(Len(list) - 1) :
            TokenClass(list[i]) = TokenClass(list[i + 1]) =>
                TokenClass(list[i]) = "Type_Period"

\* C16: for every version string over a bounded alphabet, SplitVersionString
\* returns components whose concatenation in order is the input; every
\* component is non-empty and of characters of one class; every period
\* component is exactly one character long (consecutive periods give
\* separate components); two adjacent components are of the same class only
\* when the first is a period; the empty string gives the empty sequence.
C16_SplitVersionString ==
    result.called => SplitsWell(verA) /\ SplitsWell(verB)

\* "..1" has been split into ".", ".", "1" and "" into nothing
C16_Witness ==
    /\ result.called
    /\ verA = <<46, 46, 49>>
    /\ SplitVersionString(verA) = << <<46>>, <<46>>, <<49>> >>
    /\ verB = <<>>
    /\ SplitVersionString(verB) = <<>>

----------------------------------------------------------------------------
(* Properties of concurrent parses *)

\* C20 as claimed: under any interleaving of two concurrent parses that
\* share last_version, the handling of an enclosure being a comparison step
\* followed by a separate write step, last_version is never overwritten by a
\* value that CompareVersions does not rank strictly greater than the
\* non-empty value it held immediately before the write: when an assignment
\* to last_version is complete, what last_version holds ranks strictly above
\* what it held when that assignment began.
C20_NeverMovesBackwards ==
    [][\A t \in Threads :
        (parses[t].pc = "terminate" /\ parses'[t].pc = "ready"
            /\ parses[t].held # <<>>) =>
            CompareVersions(last_version', parses[t].held) > 0]_vars

====
